---- MODULE Spec2Model ----
(***************************************************************************)
(* Model of the request handlers of the quote-sharing application          *)
(* (src/app/main.py, deps.py, models.py): the datastore tables users,      *)
(* quotes and user_quote_reactions, the signed-cookie sessions of the      *)
(* clients, and one action per HTTP handler.                               *)
(*                                                                         *)
(* Strings are sequences of one-character strings, so that strip(),        *)
(* lower() and ilike are computed the way the code computes them.          *)
(***************************************************************************)
EXTENDS Integers, Sequences, FiniteSets, TLC

\* ------------------------------------------------------------------ bounds
MaxUsers == 2
MaxQuotes == 2
MaxReactions == 2
MaxClock == 1
PAGE_SIZE == 1

Clients == {1, 2}

\* ----------------------------------------------------------------- strings
\* Python None for an optional form field or a nullable column.
Null == <<"<None>">>

IsSpace(ch) == ch = " "

LowerChar(ch) == IF ch = "A" THEN "a" ELSE IF ch = "B" THEN "b" ELSE ch

\* str.lower()
Lower(s) == [i \in 1..Len(s) |-> LowerChar(s[i])]

RECURSIVE LStrip(_)
LStrip(s) == IF s # <<>> /\ IsSpace(Head(s)) THEN LStrip(Tail(s)) ELSE s

RECURSIVE RStrip(_)
RStrip(s) == IF s # <<>> /\ IsSpace(s[Len(s)]) THEN RStrip(SubSeq(s, 1, Len(s) - 1)) ELSE s

\* str.strip()
Strip(s) == RStrip(LStrip(s))

\* Python truthiness of an optional string: None and "" are falsy.
Truthy(s) == s # Null /\ s # <<>>

\* needle is a substring of hay
Contains(hay, needle) ==
    \E i \in 0..(Len(hay) - Len(needle)) : SubSeq(hay, i + 1, i + Len(needle)) = needle

\* column ILIKE '%kw%': NULL never matches, comparison ignores case.
ILike(col, kw) == col # Null /\ Contains(Lower(col), Lower(kw))

\* ---------------------------------------------------------------- security
\* app/security.py is not part of the sources at hand; a hash is modelled as
\* a tagged copy of the password, verified by recomputation.
hash_password(pw) == <<"hash", pw>>

verify_password(pw, h) == h = hash_password(pw)

\* ------------------------------------------------------------------- state
VARIABLES
    users,      \* table users: set of rows
    quotes,     \* table quotes: set of rows
    reactions,  \* table user_quote_reactions: set of rows
    session,    \* session[c]: the user_id held by client c's session cookie, 0 for none
    pc,         \* pc[c]: the request of client c that is between its reads and its commit
    local,      \* local[c]: what that request has read
    last,       \* the last completed request and its response
    clock       \* datetime.utcnow()

vars == <<users, quotes, reactions, session, pc, local, last, clock>>

\* The datastore as one value.
DB == [users |-> users, quotes |-> quotes, reactions |-> reactions]

Max(S) == CHOOSE x \in S : \A y \in S : y <= x

\* Integer primary key of a new row (SQLite rowid: one more than the largest).
NextId(rows) == IF rows = {} THEN 1 ELSE Max({r.id : r \in rows}) + 1

NoUser == [id |-> 0]

\* NULL in a DateTime column.
Never == -1

\* A handler's outcome: the datastore and session it leaves, and its response.
Result(db, sid, status, code) == [db |-> db, sid |-> sid, status |-> status, code |-> code]

\* A two-phase handler after its reads: either it has answered (done), or it
\* goes on to its commit with what it has read (loc).
Answered(res) == [done |-> TRUE, res |-> res]

Pending(loc) == [done |-> FALSE, loc |-> loc]

OkStatus(variant) == IF variant = "api" THEN 200 ELSE 303

\* -------------------------------------------------------------------- deps
get_current_user(db, sid) ==
    IF sid = 0 THEN NoUser
    ELSE IF \E u \in db.users : u.id = sid
         THEN CHOOSE u \in db.users : u.id = sid
         ELSE NoUser

\* require_user raises HTTPException(401) before the handler body runs.
Unauthorized(db, sid) == Result(db, sid, 401, "unauthorized")

\* ---------------------------------------------------------------- register
\* register without its username lookup.
RegisterRead_NoUsernameCheck(db, sid, rq) ==
    LET username == Strip(rq.username)
        email == Lower(Strip(rq.email))
    IN  IF username = <<>> \/ email = <<>> \/ rq.password = <<>>
        THEN Answered(Result(db, sid, 400, "invalid_input"))
        ELSE IF \E u \in db.users : u.email = email
        THEN Answered(Result(db, sid, 400, "email_exists"))
        ELSE Pending([op |-> "register", username |-> username, email |-> email,
                      password |-> rq.password])

\* register comparing the email as typed, without lower().
RegisterRead_CaseSensitiveEmail(db, sid, rq) ==
    LET username == Strip(rq.username)
        email == Strip(rq.email)
    IN  IF username = <<>> \/ email = <<>> \/ rq.password = <<>>
        THEN Answered(Result(db, sid, 400, "invalid_input"))
        ELSE IF \E u \in db.users : u.username = username
        THEN Answered(Result(db, sid, 400, "user_exists"))
        ELSE IF \E u \in db.users : u.email = email
        THEN Answered(Result(db, sid, 400, "email_exists"))
        ELSE Pending([op |-> "register", username |-> username, email |-> email,
                      password |-> rq.password])

\* rq: [username, email, password]. Lines 77-84: normalise, validate, look up.
RegisterRead(db, sid, rq) ==
    LET username == Strip(rq.username)
        email == Lower(Strip(rq.email))
    IN  IF username = <<>> \/ email = <<>> \/ rq.password = <<>>
        THEN Answered(Result(db, sid, 400, "invalid_input"))
        ELSE IF \E u \in db.users : u.username = username
        THEN Answered(Result(db, sid, 400, "user_exists"))
        ELSE IF \E u \in db.users : u.email = email
        THEN Answered(Result(db, sid, 400, "email_exists"))
        ELSE Pending([op |-> "register", username |-> username, email |-> email,
                      password |-> rq.password])

\* unique=True on users.username and users.email.
UsersUniqueViolation(db, row) ==
    \E u \in db.users : u.username = row.username \/ u.email = row.email

\* Lines 86-89: db.add(user); db.commit(). A violated constraint raises
\* IntegrityError out of the handler: response 500, nothing inserted.
RegisterCommit(db, sid, now, loc) ==
    LET row == [id |-> NextId(db.users), username |-> loc.username, email |-> loc.email,
                password_hash |-> hash_password(loc.password), created_at |-> now,
                last_login_at |-> Never, is_active |-> TRUE]
    IN  IF UsersUniqueViolation(db, row)
        THEN Result(db, sid, 500, "integrity_error")
        ELSE Result([db EXCEPT !.users = @ \cup {row}], sid, 303, "registered")

\* The whole handler with no other request between its reads and its commit.
Register(db, sid, now, rq) ==
    LET rd == RegisterRead(db, sid, rq)
    IN  IF rd.done THEN rd.res ELSE RegisterCommit(db, sid, now, rd.loc)

\* ------------------------------------------------------------ login/logout
\* The rows the OR filter of lines 107-111 matches.
LoginMatches(db, rq) ==
    LET ident == Strip(rq.username_or_email)
    IN  {u \in db.users : u.username = ident \/ u.email = Lower(ident)}

\* The outcome of login once .first() has returned row (NoUser for None):
\* lines 112-117.
LoginCheck(db, sid, now, rq, row) ==
    IF row.id = 0 \/ ~verify_password(rq.password, row.password_hash)
    THEN Result(db, sid, 401, "invalid_credentials")
    ELSE Result([db EXCEPT !.users = (@ \ {row}) \cup {[row EXCEPT !.last_login_at = now]}],
                row.id, 303, "ok")

\* rq: [username_or_email, password]. .first() has no ORDER BY: any matching
\* row may be the one returned.
Login(db, sid, now, rq) ==
    LET matches == LoginMatches(db, rq)
    IN  IF matches = {} THEN {LoginCheck(db, sid, now, rq, NoUser)}
        ELSE {LoginCheck(db, sid, now, rq, row) : row \in matches}

Logout(db, sid) == Result(db, 0, 303, "ok")

\* ------------------------------------------------------------------ quotes
\* `x.strip() if x else None` of lines 199-201 and 326-328.
Opt(s) == IF Truthy(s) THEN Strip(s) ELSE Null

\* db.query(Quote).filter(Quote.id == quote_id).first(): the primary key
\* matches at most one row.
QuoteById(db, quote_id) == {q \in db.quotes : q.id = quote_id}

\* create_quote validating its content before require_user has run.
CreateQuote_ValidateFirst(db, sid, now, rq) ==
    LET user == get_current_user(db, sid)
    IN  IF Strip(rq.content) = <<>> THEN Result(db, sid, 400, "invalid_input")
        ELSE IF user.id = 0 THEN Unauthorized(db, sid)
        ELSE LET row == [id |-> NextId(db.quotes), owner_id |-> user.id,
                         content |-> Strip(rq.content), source |-> Opt(rq.source),
                         author |-> Opt(rq.author), explanation |-> Opt(rq.explanation),
                         created_at |-> now, updated_at |-> now, written_by |-> user.id]
             IN  Result([db EXCEPT !.quotes = @ \cup {row}], sid, OkStatus(rq.variant), "created")

\* rq: [variant, content, source, author, explanation]. written_by records
\* the actor of the row's last write (not a column).
CreateQuote(db, sid, now, rq) ==
    LET user == get_current_user(db, sid)
    IN  IF user.id = 0 THEN Unauthorized(db, sid)
        ELSE IF Strip(rq.content) = <<>> THEN Result(db, sid, 400, "invalid_input")
        ELSE LET row == [id |-> NextId(db.quotes), owner_id |-> user.id,
                         content |-> Strip(rq.content), source |-> Opt(rq.source),
                         author |-> Opt(rq.author), explanation |-> Opt(rq.explanation),
                         created_at |-> now, updated_at |-> now, written_by |-> user.id]
             IN  Result([db EXCEPT !.quotes = @ \cup {row}], sid, OkStatus(rq.variant), "created")

\* The row update_quote writes for actor user.
UpdatedRow(quote, user, now, rq) ==
    [quote EXCEPT !.content = Strip(rq.content), !.source = Opt(rq.source),
                  !.author = Opt(rq.author), !.explanation = Opt(rq.explanation),
                  !.updated_at = now, !.written_by = user.id]

\* update_quote without its ownership check.
UpdateQuote_NoOwnerCheck(db, sid, now, rq) ==
    LET user == get_current_user(db, sid)
        found == QuoteById(db, rq.quote_id)
    IN  IF user.id = 0 THEN Unauthorized(db, sid)
        ELSE IF found = {} THEN Result(db, sid, 404, "not_found")
        ELSE LET quote == CHOOSE q \in found : TRUE
             IN  IF Strip(rq.content) = <<>> THEN Result(db, sid, 400, "invalid_input")
                 ELSE Result([db EXCEPT !.quotes = (@ \ {quote})
                                            \cup {UpdatedRow(quote, user, now, rq)}],
                             sid, OkStatus(rq.variant), "updated")

\* update_quote validating its content before it looks the quote up.
UpdateQuote_ValidateFirst(db, sid, now, rq) ==
    LET user == get_current_user(db, sid)
        found == QuoteById(db, rq.quote_id)
    IN  IF user.id = 0 THEN Unauthorized(db, sid)
        ELSE IF Strip(rq.content) = <<>> THEN Result(db, sid, 400, "invalid_input")
        ELSE IF found = {} THEN Result(db, sid, 404, "not_found")
        ELSE LET quote == CHOOSE q \in found : TRUE
             IN  IF quote.owner_id # user.id THEN Result(db, sid, 403, "forbidden")
                 ELSE Result([db EXCEPT !.quotes = (@ \ {quote})
                                            \cup {UpdatedRow(quote, user, now, rq)}],
                             sid, OkStatus(rq.variant), "updated")

\* rq: [variant, quote_id, content, source, author, explanation].
UpdateQuote(db, sid, now, rq) ==
    LET user == get_current_user(db, sid)
        found == QuoteById(db, rq.quote_id)
    IN  IF user.id = 0 THEN Unauthorized(db, sid)
        ELSE IF found = {} THEN Result(db, sid, 404, "not_found")
        ELSE LET quote == CHOOSE q \in found : TRUE
             IN  IF quote.owner_id # user.id THEN Result(db, sid, 403, "forbidden")
                 ELSE IF Strip(rq.content) = <<>> THEN Result(db, sid, 400, "invalid_input")
                 ELSE Result([db EXCEPT !.quotes = (@ \ {quote})
                                            \cup {UpdatedRow(quote, user, now, rq)}],
                             sid, OkStatus(rq.variant), "updated")

\* rq: [variant, quote_id]. db.delete(quote) cascades over quote.reactions
\* (cascade="all, delete-orphan"): the rows whose quote_id is the quote's id.
DeleteQuote(db, sid, rq) ==
    LET user == get_current_user(db, sid)
        found == QuoteById(db, rq.quote_id)
    IN  IF user.id = 0 THEN Unauthorized(db, sid)
        ELSE IF found = {} THEN Result(db, sid, 404, "not_found")
        ELSE LET quote == CHOOSE q \in found : TRUE
             IN  IF quote.owner_id # user.id THEN Result(db, sid, 403, "forbidden")
                 ELSE Result([db EXCEPT !.quotes = @ \ {quote},
                                        !.reactions = {r \in @ : r.quote_id # quote.id}],
                             sid, OkStatus(rq.variant), "deleted")

\* --------------------------------------------------------------- reactions
ReactionTypes == {"like", "collect"}

\* The lookup without its reaction_type condition.
ReactionMatches_AnyType(db, user_id, quote_id, reaction_type) ==
    {r \in db.reactions : r.user_id = user_id /\ r.quote_id = quote_id}

\* The rows the filter of lines 393-401 matches.
ReactionMatches(db, user_id, quote_id, reaction_type) ==
    {r \in db.reactions : /\ r.user_id = user_id
                          /\ r.quote_id = quote_id
                          /\ r.reaction_type = reaction_type}

\* rq: [variant, accept_json, quote_id, reaction_type]. Lines 388-401: the checks and the
\* lookup of the existing row; existing is its id, 0 for None. The set holds
\* one outcome for each row .first() may return.
ToggleRead(db, sid, rq) ==
    LET user == get_current_user(db, sid)
        found == QuoteById(db, rq.quote_id)
    IN  IF user.id = 0 THEN {Answered(Unauthorized(db, sid))}
        ELSE IF rq.reaction_type \notin ReactionTypes
        THEN {Answered(Result(db, sid, 400, "invalid_reaction"))}
        ELSE IF found = {} THEN {Answered(Result(db, sid, 404, "not_found"))}
        ELSE LET matches == ReactionMatches(db, user.id, rq.quote_id, rq.reaction_type)
                 loc(existing) == [op |-> "toggle", variant |-> rq.variant,
                                   accept_json |-> rq.accept_json, user_id |-> user.id, quote_id |-> rq.quote_id,
                                   reaction_type |-> rq.reaction_type, existing |-> existing]
             IN  IF matches = {} THEN {Pending(loc(0))}
                 ELSE {Pending(loc(r.id)) : r \in matches}

\* The table without its uniqueness constraint.
uq_reaction_dropped(db, row) == TRUE

\* UniqueConstraint("user_id", "quote_id", "reaction_type", name="uq_reaction").
uq_reaction(db, row) ==
    ReactionMatches(db, row.user_id, row.quote_id, row.reaction_type) = {}

\* ForeignKey("quotes.id") on user_quote_reactions.quote_id.
QuoteExists(db, quote_id) == QuoteById(db, quote_id) # {}

\* Lines 411-413 and 569-573: the API handler answers JSON; the HTML handler
\* answers JSON when the Accept header asks for it, else it redirects.
ToggleStatus(rq) == IF rq.variant = "api" \/ rq.accept_json THEN 200 ELSE 303

\* "Added" / "Removed" of the HTML handler, "added" / "removed" of the API one.
Added(variant) == IF variant = "api" THEN "added" ELSE "Added"

Removed(variant) == IF variant = "api" THEN "removed" ELSE "Removed"

\* A toggle that keeps like and collect exclusive: an insert also removes the
\* user's row of the other type on the quote.
ToggleCommit_Exclusive(db, sid, now, loc) ==
    IF loc.existing # 0
    THEN {Result([db EXCEPT !.reactions = {r \in @ : r.id # loc.existing}], sid,
                 ToggleStatus(loc), Removed(loc.variant))}
    ELSE LET row == [id |-> NextId(db.reactions), user_id |-> loc.user_id,
                     quote_id |-> loc.quote_id, reaction_type |-> loc.reaction_type,
                     created_at |-> now]
             kept == {r \in db.reactions : r.user_id # loc.user_id \/ r.quote_id # loc.quote_id}
         IN  IF ~uq_reaction(db, row) THEN {Result(db, sid, 500, "integrity_error")}
             ELSE {Result([db EXCEPT !.reactions = kept \cup {row}], sid,
                          ToggleStatus(loc), Added(loc.variant))}

\* Lines 402-410. Deleting a row that is gone matches no row and is not an
\* error. An insert that violates uq_reaction raises IntegrityError (500,
\* nothing inserted). An insert whose quote is gone is stored by an engine
\* that does not enforce foreign keys (SQLite without the pragma) and raises
\* IntegrityError on one that does: both outcomes are in the set.
ToggleCommit(db, sid, now, loc) ==
    IF loc.existing # 0
    THEN {Result([db EXCEPT !.reactions = {r \in @ : r.id # loc.existing}], sid,
                 ToggleStatus(loc), Removed(loc.variant))}
    ELSE LET row == [id |-> NextId(db.reactions), user_id |-> loc.user_id,
                     quote_id |-> loc.quote_id, reaction_type |-> loc.reaction_type,
                     created_at |-> now]
             stored == Result([db EXCEPT !.reactions = @ \cup {row}], sid,
                              ToggleStatus(loc), Added(loc.variant))
             fault == Result(db, sid, 500, "integrity_error")
         IN  IF ~uq_reaction(db, row) THEN {fault}
             ELSE IF ~QuoteExists(db, row.quote_id) THEN {stored, fault}
             ELSE {stored}

\* The whole handler with no other request between its reads and its commit.
ToggleReaction(db, sid, now, rq) ==
    UNION { IF rd.done THEN {rd.res} ELSE ToggleCommit(db, sid, now, rd.loc)
            : rd \in ToggleRead(db, sid, rq) }

\* ----------------------------------------------------------------- listing
\* rq: [variant, q, author, source, page]. Lines 137-145 and 432-440: the
\* rows of the query after its filters. The HTML handler joins users.
ListQuery(db, rq) ==
    LET base == IF rq.variant = "html"
                THEN {x \in db.quotes : \E u \in db.users : u.id = x.owner_id}
                ELSE db.quotes
        keyword == Strip(IF rq.q = Null THEN <<>> ELSE rq.q)
        byKeyword == IF keyword # <<>>
                     THEN {x \in base : ILike(x.content, keyword) \/ ILike(x.explanation, keyword)}
                     ELSE base
        byAuthor == IF Truthy(rq.author)
                    THEN {x \in byKeyword : ILike(x.author, Strip(rq.author))}
                    ELSE byKeyword
    IN  IF Truthy(rq.source)
        THEN {x \in byAuthor : ILike(x.source, Strip(rq.source))}
        ELSE byAuthor

\* order_by(Quote.created_at.desc()): every arrangement of rows with
\* created_at descending; rows of equal created_at come in any order.
OrderByCreatedAtDesc(rows) ==
    {s \in [1..Cardinality(rows) -> rows] :
        /\ \A i, j \in DOMAIN s : i # j => s[i] # s[j]
        /\ \A i, j \in DOMAIN s : i < j => s[i].created_at >= s[j].created_at}

\* .offset(offset).limit(limit) of a result list
OffsetLimit(s, offset, limit) ==
    SubSeq(s, offset + 1, IF offset + limit < Len(s) THEN offset + limit ELSE Len(s))

\* query.count()
Count(rows) == Cardinality(rows)

\* max(page, 1)
CoercePage(page) == IF page > 1 THEN page ELSE 1

\* Lines 151-159: the reaction types the HTML listing shows a logged-in user
\* on the quotes of the page, as (quote_id, reaction_type) pairs.
PageReactions(db, sid, rq, items) ==
    LET user == get_current_user(db, sid)
    IN  IF rq.variant = "html" /\ user.id # 0
        THEN {<<r.quote_id, r.reaction_type>> :
                 r \in {x \in db.reactions : /\ x.user_id = user.id
                                             /\ \E i \in DOMAIN items : items[i].id = x.quote_id}}
        ELSE {}

\* The listing with total taken from the page it returns.
ListQuotes_TotalOfPage(db, sid, rq) ==
    LET rows == ListQuery(db, rq)
        page == CoercePage(rq.page)
        items(ord) == OffsetLimit(ord, (page - 1) * PAGE_SIZE, PAGE_SIZE)
    IN  {[items |-> items(ord), page |-> page, total |-> Len(items(ord)),
          reactions |-> PageReactions(db, sid, rq, items(ord))]
            : ord \in OrderByCreatedAtDesc(rows)}

\* Lines 147-149 and 441-443: total, page and the page's rows, one response
\* for each order the engine may return.
ListQuotes(db, sid, rq) ==
    LET rows == ListQuery(db, rq)
        total == Count(rows)
        page == CoercePage(rq.page)
        items(ord) == OffsetLimit(ord, (page - 1) * PAGE_SIZE, PAGE_SIZE)
    IN  {[items |-> items(ord), page |-> page, total |-> total,
          reactions |-> PageReactions(db, sid, rq, items(ord))]
            : ord \in OrderByCreatedAtDesc(rows)}

\* ----------------------------------------------------------------- actions
NoLocal == [op |-> "none"]

Init ==
    /\ users = {}
    /\ quotes = {}
    /\ reactions = {}
    /\ session = [c \in Clients |-> 0]
    /\ pc = [c \in Clients |-> "idle"]
    /\ local = [c \in Clients |-> NoLocal]
    /\ last = [op |-> "none", rq |-> <<>>, status |-> 0, code |-> "none"]
    /\ clock = 0

\* The primary keys never grow past the bounds of the model.
WithinBounds(db) ==
    /\ \A u \in db.users : u.id <= MaxUsers
    /\ \A q \in db.quotes : q.id <= MaxQuotes
    /\ \A r \in db.reactions : r.id <= MaxReactions

\* Client c's request op(rq) completes with outcome r.
Respond(c, op, rq, r) ==
    /\ WithinBounds(r.db)
    /\ users' = r.db.users
    /\ quotes' = r.db.quotes
    /\ reactions' = r.db.reactions
    /\ session' = [session EXCEPT ![c] = r.sid]
    /\ last' = [op |-> op, rq |-> rq, status |-> r.status, code |-> r.code]

\* Client c's request has done its reads and waits for its commit.
Suspend(c, loc) ==
    /\ pc' = [pc EXCEPT ![c] = loc.op]
    /\ local' = [local EXCEPT ![c] = loc]
    /\ UNCHANGED <<users, quotes, reactions, session, last>>

Idle(c) == pc[c] = "idle"

\* POST /register, with no other request between its reads and its commit.
RegisterReq(c, rq) ==
    /\ Idle(c)
    /\ Respond(c, "register", rq, Register(DB, session[c], clock, rq))
    /\ UNCHANGED <<pc, local, clock>>

\* POST /register up to its commit.
RegisterBegin(c, rq) ==
    /\ Idle(c)
    /\ LET rd == RegisterRead(DB, session[c], rq)
       IN  IF rd.done
           THEN Respond(c, "register", rq, rd.res) /\ UNCHANGED <<pc, local>>
           ELSE Suspend(c, rd.loc)
    /\ UNCHANGED clock

\* db.add(user); db.commit() of a suspended POST /register.
RegisterEnd(c) ==
    /\ pc[c] = "register"
    /\ Respond(c, "register", local[c], RegisterCommit(DB, session[c], clock, local[c]))
    /\ pc' = [pc EXCEPT ![c] = "idle"]
    /\ local' = [local EXCEPT ![c] = NoLocal]
    /\ UNCHANGED clock

\* POST /login
LoginReq(c, rq) ==
    /\ Idle(c)
    /\ \E r \in Login(DB, session[c], clock, rq) : Respond(c, "login", rq, r)
    /\ UNCHANGED <<pc, local, clock>>

\* POST /logout
LogoutReq(c) ==
    /\ Idle(c)
    /\ Respond(c, "logout", <<>>, Logout(DB, session[c]))
    /\ UNCHANGED <<pc, local, clock>>

\* POST /quotes and POST /api/quotes
CreateQuoteReq(c, rq) ==
    /\ Idle(c)
    /\ Respond(c, "create_quote", rq, CreateQuote(DB, session[c], clock, rq))
    /\ UNCHANGED <<pc, local, clock>>

\* POST /quotes/{quote_id}/edit and POST /api/quotes/{quote_id}
UpdateQuoteReq(c, rq) ==
    /\ Idle(c)
    /\ Respond(c, "update_quote", rq, UpdateQuote(DB, session[c], clock, rq))
    /\ UNCHANGED <<pc, local, clock>>

\* POST /quotes/{quote_id}/delete and POST /api/quotes/{quote_id}/delete
DeleteQuoteReq(c, rq) ==
    /\ Idle(c)
    /\ Respond(c, "delete_quote", rq, DeleteQuote(DB, session[c], rq))
    /\ UNCHANGED <<pc, local, clock>>

\* POST /quotes/{quote_id}/react and POST /api/quotes/{quote_id}/react, with
\* no other request between its reads and its commit.
ToggleReq(c, rq) ==
    /\ Idle(c)
    /\ \E r \in ToggleReaction(DB, session[c], clock, rq) : Respond(c, "toggle_reaction", rq, r)
    /\ UNCHANGED <<pc, local, clock>>

\* The react handlers up to their commit.
ToggleBegin(c, rq) ==
    /\ Idle(c)
    /\ \E rd \in ToggleRead(DB, session[c], rq) :
          IF rd.done
          THEN Respond(c, "toggle_reaction", rq, rd.res) /\ UNCHANGED <<pc, local>>
          ELSE Suspend(c, rd.loc)
    /\ UNCHANGED clock

\* The delete or insert and the commit of a suspended react handler.
ToggleEnd(c) ==
    /\ pc[c] = "toggle"
    /\ \E r \in ToggleCommit(DB, session[c], clock, local[c]) :
          Respond(c, "toggle_reaction", local[c], r)
    /\ pc' = [pc EXCEPT ![c] = "idle"]
    /\ local' = [local EXCEPT ![c] = NoLocal]
    /\ UNCHANGED clock

\* GET / and GET /api/quotes: read-only, the response is kept in last.
ListQuotesReq(c, rq) ==
    /\ Idle(c)
    /\ \E r \in ListQuotes(DB, session[c], rq) :
          last' = [op |-> "list_quotes", rq |-> rq, status |-> 200,
                   code |-> "ok", page |-> r.page, total |-> r.total,
                   items |-> [i \in DOMAIN r.items |-> r.items[i].id],
                   reactions |-> r.reactions]
    /\ UNCHANGED <<users, quotes, reactions, session, pc, local, clock>>

\* Time passes between two requests.
Tick ==
    /\ clock < MaxClock
    /\ clock' = clock + 1
    /\ UNCHANGED <<users, quotes, reactions, session, pc, local, last>>

\* ------------------------------------------------------------------ inputs
Variants == {"html", "api"}

\* Form values of POST /register: <<username, email, password>>.
RegisterForm(t) == [username |-> t[1], email |-> t[2], password |-> t[3]]

RegisterInputs ==
    { RegisterForm(t) : t \in {
        << <<"a">>, <<"a">>, <<"p">> >>,
        << <<" ", "a">>, <<"A", " ">>, <<"q">> >>,
        << <<"b">>, <<"b">>, <<"q">> >>,
        << <<"b">>, <<" ", "A">>, <<"q">> >>,
        << <<"a">>, <<"b">>, <<"p">> >>,
        << <<" ">>, <<"b">>, <<"p">> >>,
        << <<"b">>, <<" ">>, <<"p">> >>,
        << <<"b">>, <<"b">>, <<>> >> } }

\* Form values of POST /login.
LoginInputs ==
    [username_or_email : {<<"a">>, <<"A">>, <<"b", " ">>, <<"c">>},
     password : {<<"p">>, <<"q">>}]

\* ---------------------------------------------------------- specifications
\* Accounts and sessions, with concurrent registrations.
NextAuth ==
    \E c \in Clients :
        \/ \E rq \in RegisterInputs : RegisterBegin(c, rq)
        \/ RegisterEnd(c)
        \/ \E rq \in LoginInputs : LoginReq(c, rq)
        \/ LogoutReq(c)

SpecAuth == Init /\ [][NextAuth]_vars

\* Form values of the quote handlers: <<content, source, author, explanation>>.
QuoteForm(t) == [content |-> t[1], source |-> t[2], author |-> t[3], explanation |-> t[4]]

QuoteForms ==
    { QuoteForm(t) : t \in {
        << <<"a">>, Null, Null, Null >>,
        << <<" ", "b", " ">>, <<" ">>, <<>>, <<"A", " ">> >>,
        << <<" ">>, <<"a">>, Null, Null >> } }

\* Path parameter quote_id; an id is missing while fewer quotes exist.
QuoteIds == 1..MaxQuotes

WithVariant(rq, variant) == [x \in DOMAIN rq \cup {"variant"} |->
                                IF x = "variant" THEN variant ELSE rq[x]]

WithQuoteId(rq, quote_id) == [x \in DOMAIN rq \cup {"quote_id"} |->
                                IF x = "quote_id" THEN quote_id ELSE rq[x]]

CreateInputs == { WithVariant(f, v) : f \in QuoteForms, v \in Variants }

UpdateInputs == { WithQuoteId(rq, id) : rq \in CreateInputs, id \in QuoteIds }

DeleteInputs == [variant : Variants, quote_id : QuoteIds]

\* The Accept header matters to the HTML handler only.
ToggleInputs ==
    {rq \in [variant : Variants, accept_json : BOOLEAN, quote_id : QuoteIds,
             reaction_type : {"like", "collect", "love"}] :
        rq.accept_json => rq.variant = "html"}

\* Two accounts, registered and logged in with matching forms.
FewRegisterInputs ==
    { RegisterForm(t) : t \in { << <<"a">>, <<"a">>, <<"p">> >>,
                                << <<"b">>, <<"b">>, <<"q">> >> } }

FewLoginInputs ==
    { [username_or_email |-> <<"a">>, password |-> <<"p">>],
      [username_or_email |-> <<"b">>, password |-> <<"q">>],
      [username_or_email |-> <<"b">>, password |-> <<"p">>] }

\* The client whose requests run one at a time.
Solo == {1}

\* Every handler that writes, each request running alone from its reads to
\* its commit.
Next ==
    \E c \in Solo :
        \/ \E rq \in FewRegisterInputs : RegisterReq(c, rq)
        \/ \E rq \in FewLoginInputs : LoginReq(c, rq)
        \/ LogoutReq(c)
        \/ \E rq \in CreateInputs : CreateQuoteReq(c, rq)
        \/ \E rq \in UpdateInputs : UpdateQuoteReq(c, rq)
        \/ \E rq \in DeleteInputs : DeleteQuoteReq(c, rq)
        \/ \E rq \in {t \in ToggleInputs : t.reaction_type # "collect"} : ToggleReq(c, rq)

Spec == Init /\ [][Next]_vars

PlainQuote == WithVariant(QuoteForm(<< <<"a">>, Null, Null, Null >>), "api")

\* Reactions of two users on two quotes, each request running alone.
NextReact ==
    \E c \in Solo :
        \/ \E rq \in FewRegisterInputs : RegisterReq(c, rq)
        \/ \E rq \in FewLoginInputs : LoginReq(c, rq)
        \/ CreateQuoteReq(c, PlainQuote)
        \/ \E rq \in ToggleInputs : ToggleReq(c, rq)

SpecReact == Init /\ [][NextReact]_vars

\* Two clients of one account whose register, react and delete requests
\* interleave between their reads and their commits.
RaceRegister == RegisterForm(<< <<"a">>, <<"a">>, <<"p">> >>)

RaceLogin == [username_or_email |-> <<"a">>, password |-> <<"p">>]

NextRace ==
    \E c \in Clients :
        \/ RegisterBegin(c, RaceRegister)
        \/ RegisterEnd(c)
        \/ LoginReq(c, RaceLogin)
        \/ CreateQuoteReq(c, PlainQuote)
        \/ DeleteQuoteReq(c, [variant |-> "api", quote_id |-> 1])
        \/ \E rq \in {t \in ToggleInputs : t.quote_id = 1 /\ t.reaction_type \in ReactionTypes
                                           /\ t.variant = "api"} : ToggleBegin(c, rq)
        \/ ToggleEnd(c)

SpecRace == Init /\ [][NextRace]_vars

\* ================================================================== claims
\* The (user_id, quote_id, reaction_type) triples of a set of reaction rows.
Triples(rows) == {<<r.user_id, r.quote_id, r.reaction_type>> : r \in rows}

\* The session values of authenticated users.
Authenticated(db) == {u.id : u \in db.users}

\* C1: in every reachable state of the datastore, whatever the interleaving
\* of the react requests (two requests of the same user for the same quote
\* and type that both read "no existing row" before either commits
\* included), no two reaction rows share (user_id, quote_id, reaction_type).
C1_OneRowPerTriple ==
    \A r1, r2 \in reactions :
        (/\ r1.user_id = r2.user_id
         /\ r1.quote_id = r2.quote_id
         /\ r1.reaction_type = r2.reaction_type) => r1 = r2

\* The race of C1 has happened: a suspended react request that had read "no
\* existing row" committed after the same row had been inserted.
C1_Witness ==
    /\ last.op = "toggle_reaction"
    /\ last.code = "integrity_error"
    /\ last.rq.existing = 0
    /\ QuoteExists(DB, last.rq.quote_id)
    /\ ReactionMatches(DB, last.rq.user_id, last.rq.quote_id, last.rq.reaction_type) # {}

\* The react requests of C2 and C3: a known reaction type on an existing quote.
ValidToggles(db) ==
    {rq \in ToggleInputs : rq.reaction_type \in ReactionTypes /\ QuoteExists(db, rq.quote_id)}

\* C2: for every authenticated user, existing quote and reaction type, two
\* consecutive react requests with the same arguments and nothing in between
\* answer "added" and "removed", in either order, and leave the set of
\* reaction triples as it was before the first.
C2_ToggleInvolution ==
    \A sid \in Authenticated(DB) : \A rq \in ValidToggles(DB) :
        \A r1 \in ToggleReaction(DB, sid, clock, rq) : \A r2 \in ToggleReaction(r1.db, r1.sid, clock, rq) :
            /\ {r1.code, r2.code} = {Added(rq.variant), Removed(rq.variant)}
            /\ Triples(r2.db.reactions) = Triples(reactions)

\* A react request has just removed the row an earlier one had added, while
\* another reaction row stays.
C2_Witness ==
    /\ last.op = "toggle_reaction"
    /\ last.code = Removed(last.rq.variant)
    /\ \E c \in Solo : <<session[c], last.rq.quote_id, last.rq.reaction_type>> \notin Triples(reactions)
    /\ reactions # {}

\* The rows in one of two sets of rows and not in the other.
RowsChanged(before, after) == (before \ after) \cup (after \ before)

\* C3: a successful react request of user sid for (quote, type) inserts or
\* deletes exactly the one row (sid, quote, type); every other reaction row
\* (the user's other type on the quote, other users' rows, rows on other
\* quotes), the users and the quotes stay as they were.
C3_ToggleFrame ==
    \A sid \in Authenticated(DB) : \A rq \in ValidToggles(DB) :
        \A r \in ToggleReaction(DB, sid, clock, rq) :
            r.status = ToggleStatus(rq) =>
                /\ r.db.users = users
                /\ r.db.quotes = quotes
                /\ Cardinality(RowsChanged(reactions, r.db.reactions)) = 1
                /\ Triples(RowsChanged(reactions, r.db.reactions))
                       = {<<sid, rq.quote_id, rq.reaction_type>>}

\* A react request has just added a row for a user who holds the other type
\* on the same quote: like and collect are held together.
C3_Witness ==
    /\ last.op = "toggle_reaction"
    /\ last.code = Added(last.rq.variant)
    /\ \E c \in Solo : \A t \in ReactionTypes :
          <<session[c], last.rq.quote_id, t>> \in Triples(reactions)

\* A response that reports a failure.
Failed(r) == r.status \notin {200, 303}

\* C4: update_quote and delete_quote (HTML and API) by an authenticated actor
\* who is not the owner of the existing quote answer 403 forbidden whatever
\* the submitted content and leave the datastore (the quote, its reactions)
\* as it was; so every quote's fields were last written by its owner.
C4_NonOwnerForbidden ==
    /\ \A sid \in Authenticated(DB) : \A q \in quotes :
          q.owner_id # sid =>
              /\ \A rq \in UpdateInputs :
                    rq.quote_id = q.id =>
                        UpdateQuote(DB, sid, clock, rq) = Result(DB, sid, 403, "forbidden")
              /\ \A rq \in DeleteInputs :
                    rq.quote_id = q.id =>
                        DeleteQuote(DB, sid, rq) = Result(DB, sid, 403, "forbidden")
    /\ \A q \in quotes : q.written_by = q.owner_id

\* A user who does not own a quote that has a reaction has just been refused
\* an update with valid content.
C4_Witness ==
    /\ last.op = "update_quote"
    /\ last.code = "forbidden"
    /\ Strip(last.rq.content) # <<>>
    /\ \E q \in quotes : /\ q.id = last.rq.quote_id
                         /\ \E c \in Solo : session[c] \notin {0, q.owner_id}
    /\ \E r \in reactions : r.quote_id = last.rq.quote_id

\* C5: update_quote checks existence, then ownership, then the content: a
\* missing quote answers not_found even with empty content, an existing
\* quote of another owner answers forbidden even with empty content,
\* invalid_input is answered only to the owner of an existing quote, and a
\* failing request leaves the datastore unchanged.
C5_UpdateCheckOrder ==
    \A sid \in Authenticated(DB) : \A rq \in UpdateInputs :
        LET r == UpdateQuote(DB, sid, clock, rq)
            found == QuoteById(DB, rq.quote_id)
        IN  /\ found = {} => r.status = 404 /\ r.code = "not_found"
            /\ (\E q \in found : q.owner_id # sid) => r.status = 403 /\ r.code = "forbidden"
            /\ r.code = "invalid_input" =>
                  /\ r.status = 400
                  /\ \E q \in found : q.owner_id = sid
                  /\ Strip(rq.content) = <<>>
            /\ Failed(r) => r.db = DB

\* An update with empty content of a quote that does not exist has just been
\* answered not_found.
C5_Witness ==
    /\ last.op = "update_quote"
    /\ last.code = "not_found"
    /\ Strip(last.rq.content) = <<>>
    /\ \E c \in Solo : session[c] # 0
    /\ quotes # {}

\* Session values that resolve to no user: none, or an id of no persisted row.
Anonymous(db) == {sid \in 0..(MaxUsers + 1) : get_current_user(db, sid).id = 0}

\* Every mutating handler refuses a session that resolves to no user with
\* 401, whatever else is wrong with the request, and writes nothing.
RefusesAnonymous ==
    \A sid \in Anonymous(DB) :
        /\ \A rq \in CreateInputs :
              CreateQuote(DB, sid, clock, rq) = Result(DB, sid, 401, "unauthorized")
        /\ \A rq \in UpdateInputs :
              UpdateQuote(DB, sid, clock, rq) = Result(DB, sid, 401, "unauthorized")
        /\ \A rq \in DeleteInputs :
              DeleteQuote(DB, sid, rq) = Result(DB, sid, 401, "unauthorized")
        /\ \A rq \in ToggleInputs :
              ToggleReaction(DB, sid, clock, rq) = {Result(DB, sid, 401, "unauthorized")}

\* A session comes to hold a user id only by a successful login, loses it
\* only by a logout, and holds none after a logout.
SessionSteps ==
    \A c \in Solo :
        /\ (session'[c] # session[c] /\ session'[c] # 0) =>
              /\ last'.op = "login"
              /\ last'.status = 303
              /\ session'[c] \in Authenticated(DB)
        /\ (session'[c] # session[c] /\ session'[c] = 0) => last'.op = "logout"
        /\ (last'.op = "logout" /\ last' # last) => session'[c] = 0

\* C9: every mutating quote or reaction request whose session holds no user
\* id, or one of no persisted user, answers 401 before any other check and
\* leaves users, quotes and reactions unchanged; a session holds a user id
\* only after a successful login and none after logout.
C9_Unauthorized == [](RefusesAnonymous) /\ [][SessionSteps]_vars

\* After a logout, a delete of an existing quote has just been refused with 401.
C9_Witness ==
    /\ last.op = "delete_quote"
    /\ last.code = "unauthorized"
    /\ last.status = 401
    /\ QuoteExists(DB, last.rq.quote_id)
    /\ \A c \in Solo : session[c] = 0
    /\ reactions # {}

\* Any form POST /register may receive, over the strings of the model.
AuthStrings == {<<>>, <<" ">>, <<"a">>, <<"A">>, <<" ", "a">>, <<"b">>, <<"B", " ">>}

AnyRegisterForm == [username : AuthStrings, email : AuthStrings,
                    password : {<<>>, <<"p">>, <<"q">>}]

Sessions == 0..MaxUsers

UsernameTaken(rq) == \E u \in users : u.username = Strip(rq.username)

EmailTaken(rq) == \E u \in users : u.email = Lower(Strip(rq.email))

UsernamesUnique == \A u1, u2 \in users : u1.username = u2.username => u1 = u2

\* C6 as stated: a register request whose trimmed username is that of a
\* persisted user always answers user_exists and adds no row, and usernames
\* are unique among the persisted users.
C6_Original ==
    /\ \A sid \in Sessions : \A rq \in AnyRegisterForm :
          UsernameTaken(rq) => Register(DB, sid, clock, rq) = Result(DB, sid, 400, "user_exists")
    /\ UsernamesUnique

\* C6 as amended: a register request with a password and an email that are
\* not empty (the email after trim) and a trimmed username that is that of a
\* persisted user always answers user_exists, whether or not the email is
\* new, and adds no row; usernames are unique among the persisted users.
C6_UsernameTaken ==
    /\ \A sid \in Sessions : \A rq \in AnyRegisterForm :
          (UsernameTaken(rq) /\ Strip(rq.email) # <<>> /\ rq.password # <<>>) =>
              Register(DB, sid, clock, rq) = Result(DB, sid, 400, "user_exists")
    /\ UsernamesUnique

\* A register request with a taken username and an email nobody has was just
\* answered user_exists.
C6_Witness ==
    /\ last.op = "register"
    /\ last.code = "user_exists"
    /\ UsernameTaken(last.rq)
    /\ ~EmailTaken(last.rq)

\* C7 as stated: a register request whose email, trimmed and lowercased, is
\* that of a persisted user always answers email_exists and adds no row,
\* whatever the username, a taken one included.
C7_Original ==
    \A sid \in Sessions : \A rq \in AnyRegisterForm :
        EmailTaken(rq) => Register(DB, sid, clock, rq) = Result(DB, sid, 400, "email_exists")

\* C7 as amended: a register request with a non-empty password, a username
\* that is not empty after trim and not taken, and an email that, trimmed and
\* lowercased, is that of a persisted user always answers email_exists and
\* adds no row.
C7_EmailTaken ==
    \A sid \in Sessions : \A rq \in AnyRegisterForm :
        (/\ EmailTaken(rq)
         /\ Strip(rq.username) # <<>>
         /\ rq.password # <<>>
         /\ ~UsernameTaken(rq)) =>
            Register(DB, sid, clock, rq) = Result(DB, sid, 400, "email_exists")

\* A register request with a free username and a taken email typed in upper
\* case was just answered email_exists.
C7_Witness ==
    /\ last.op = "register"
    /\ last.code = "email_exists"
    /\ Strip(last.rq.email) # Lower(Strip(last.rq.email))
    /\ ~UsernameTaken(last.rq)

\* The password a row's hash was made from.
PasswordOf(u) == u.password_hash[2]

\* C8: for every registered user, a login with the user's username or the
\* user's email and the registered password succeeds and binds the session to
\* that user's id, in every reachable state of the user table.
C8_LoginAfterRegister ==
    \A u \in users : \A ident \in {u.username, u.email} : \A sid \in Sessions :
        \A r \in Login(DB, sid, clock, [username_or_email |-> ident, password |-> PasswordOf(u)]) :
            r.status = 303 /\ r.sid = u.id

\* ----------------------------------------------------------------- listing
\* Quotes whose fields differ in what the filters look at.
ListedForms ==
    { WithVariant(QuoteForm(t), "api") : t \in {
        << <<"a">>, Null, Null, Null >>,
        << <<"A", "b">>, <<"b">>, <<"A">>, Null >>,
        << <<"b">>, Null, <<>>, <<"a">> >> } }

\* Query parameters of GET / and GET /api/quotes.
ListInputs ==
    [variant : Variants,
     q : {Null, <<" ">>, <<"A">>, <<"a", "b", " ">>},
     author : {Null, <<"a">>},
     source : {Null, <<" ", "B">>},
     page : {-1, 0, 1, 2}]

\* One account posts quotes at different times; anyone lists them.
NextList ==
    \/ \E c \in Solo :
        \/ RegisterReq(c, RaceRegister)
        \/ LoginReq(c, RaceLogin)
        \/ \E rq \in ListedForms : CreateQuoteReq(c, rq)
        \/ \E rq \in ListInputs : ListQuotesReq(c, rq)
    \/ Tick

SpecList == Init /\ [][NextList]_vars

\* A quote passes the filters of a listing request: the keyword, when not
\* empty after trim, is in its content or explanation; the author and source
\* filters, when given, are in its author and source; all ignoring case.
MatchesFilters(x, rq) ==
    LET keyword == IF rq.q = Null THEN <<>> ELSE Strip(rq.q)
    IN  /\ keyword # <<>> => (ILike(x.content, keyword) \/ ILike(x.explanation, keyword))
        /\ Truthy(rq.author) => ILike(x.author, Strip(rq.author))
        /\ Truthy(rq.source) => ILike(x.source, Strip(rq.source))

\* C10: for every combination of keyword, author and source filters and
\* every page, 0 and negative pages included (they are answered as page 1),
\* both listings return as total the number of quotes of the datastore that
\* pass the filters, whatever the page, not the length of the page returned.
C10_TotalIsCount ==
    \A c \in Solo : \A rq \in ListInputs :
        /\ \A r \in ListQuotes(DB, session[c], rq) :
              /\ r.total = Cardinality({x \in quotes : MatchesFilters(x, rq)})
              /\ r.page = IF rq.page < 1 THEN 1 ELSE rq.page
              /\ Len(r.items) <= PAGE_SIZE
        /\ rq.page < 1 =>
              ListQuotes(DB, session[c], rq) = ListQuotes(DB, session[c], [rq EXCEPT !.page = 1])

\* A listing with a keyword and a page below 1 has just answered page 1 with
\* a total larger than the page it returned.
C10_Witness ==
    /\ last.op = "list_quotes"
    /\ last.rq.page < 1
    /\ last.page = 1
    /\ Truthy(last.rq.q) /\ Strip(last.rq.q) # <<>>
    /\ last.total = 2
    /\ Len(last.items) < last.total
    /\ last.total = Cardinality({x \in quotes : MatchesFilters(x, last.rq)})

\* ------------------------------------------------------- optional fields
OptionalFields == {"source", "author", "explanation"}

\* What C11 says is stored for a submitted optional value: null when it is
\* absent or empty after trim, else the value trimmed.
TrimmedOrNull(v) == IF v = Null \/ Strip(v) = <<>> THEN Null ELSE Strip(v)

\* C11: create_quote and update_quote never persist an empty string in an
\* optional field: every stored quote has a trimmed, non-empty content and
\* each of source, author and explanation either null or trimmed and not
\* empty, and a successful create or update stores in each optional field the
\* submitted value trimmed, or null when it is empty after trim.
C11_NoEmptyOptional ==
    /\ \A q \in quotes :
          /\ q.content # <<>> /\ q.content = Strip(q.content)
          /\ \A f \in OptionalFields : q[f] # <<>> /\ (q[f] # Null => q[f] = Strip(q[f]))
    /\ \A sid \in Authenticated(DB) :
          /\ \A rq \in CreateInputs :
                \A q \in CreateQuote(DB, sid, clock, rq).db.quotes \ quotes :
                    \A f \in OptionalFields : q[f] = TrimmedOrNull(rq[f])
          /\ \A rq \in UpdateInputs :
                \A q \in UpdateQuote(DB, sid, clock, rq).db.quotes \ quotes :
                    \A f \in OptionalFields : q[f] = TrimmedOrNull(rq[f])

\* ------------------------------------------------- referential integrity
\* C12: in every reachable state every reaction row references a quote that
\* exists, whatever the interleaving of a delete_quote with a react request
\* on the same quote, and a successful delete_quote leaves no reaction row of
\* the quote it removed.
C12_NoOrphanReaction ==
    /\ \A r \in reactions : QuoteExists(DB, r.quote_id)
    /\ \A sid \in Authenticated(DB) : \A rq \in DeleteInputs :
          LET res == DeleteQuote(DB, sid, rq)
          IN  res.code = "deleted" =>
                  /\ ~QuoteExists(res.db, rq.quote_id)
                  /\ \A r \in res.db.reactions : r.quote_id # rq.quote_id

\* ------------------------------------------------------ unhandled faults
\* The outcomes the error taxonomy gives a register request.
RegisterOutcomes == {"registered", "invalid_input", "user_exists", "email_exists"}

\* The outcomes the error taxonomy gives a react request.
ToggleOutcomes ==
    {Added(v) : v \in Variants} \cup {Removed(v) : v \in Variants}
        \cup {"unauthorized", "invalid_reaction", "not_found"}

\* C13: whatever the interleaving of concurrent register requests with the
\* same username or email and of concurrent react requests with the same
\* arguments, every completed request has answered success or a structured
\* error of the taxonomy, never a fault (500) raised by a uniqueness
\* constraint of the storage layer.
C13_NoUnhandledFault ==
    /\ last.status # 500
    /\ last.op = "register" => last.code \in RegisterOutcomes
    /\ last.op = "toggle_reaction" => last.code \in ToggleOutcomes

\* ------------------------------------------------------- order of pages
\* The rows by created_at descending, rows of equal created_at by id
\* descending: the order C14 says the listing has.
CreatedAtIdDesc(rows) ==
    CHOOSE s \in OrderByCreatedAtDesc(rows) :
        \A i, j \in DOMAIN s :
            (i < j /\ s[i].created_at = s[j].created_at) => s[i].id > s[j].id

\* The number of pages that hold total rows.
NumPages(total) == (total + PAGE_SIZE - 1) \div PAGE_SIZE

ItemIds(r) == {r.items[i].id : i \in DOMAIN r.items}

\* C14: for a fixed datastore and fixed filters the listing is ordered by
\* created_at descending, then id descending: each page 1..n is the
\* corresponding slice of that one order, whichever rows share a created_at,
\* so two different pages never hold the same quote and the pages together
\* hold every matching quote once.
C14_PagesPartition ==
    \A c \in Solo : \A rq \in {x \in ListInputs : x.page = 1} :
        LET rows == ListQuery(DB, rq)
            n == NumPages(Cardinality(rows))
            Page(p) == ListQuotes(DB, session[c], [rq EXCEPT !.page = p])
        IN  /\ \A p \in 1..n : \A r \in Page(p) :
                  r.items = OffsetLimit(CreatedAtIdDesc(rows), (p - 1) * PAGE_SIZE, PAGE_SIZE)
            /\ \A p1, p2 \in 1..n : \A r1 \in Page(p1) : \A r2 \in Page(p2) :
                  p1 # p2 => ItemIds(r1) \cap ItemIds(r2) = {}

====
